---- MODULE Spec2Model ----
(***************************************************************************)
(* Model of the planning board: the persistent store (cell, ticket and     *)
(* project tables), the placement engine (Ticket.move_to / TicketMover),   *)
(* the ticket lifecycle operations (refresh, delete), the project date     *)
(* rollup and the rebase of the grid at start-up, as implemented in        *)
(* planning/model_drawer.py, planning/models.py and                        *)
(* planning/widgets/planning_grid.py.                                      *)
(***************************************************************************)
EXTENDS Integers, Sequences, FiniteSets, TLC

VARIABLES
    cell,      \* the "cell" table: a set of CellModel rows
    ticket,    \* the "ticket" table: ticket id -> TicketModel row
    project,   \* the "project" table: project id -> ProjectModel row
    last,      \* the last operation performed and its arguments
    days_displayed,  \* PlanningGrid.days_displayed: the day shown on each row
    today,     \* date.today() of the running session
    first_row, \* the "first_row" table: the date stored by the last rebase
    run        \* the loop a running handler is in, and what is left of it

vars == <<cell, ticket, project, last, days_displayed, today, first_row, run>>

\* the grid, the calendar and the position of the running handler
grid == <<days_displayed, today, first_row, run>>

----------------------------------------------------------------------------
(* Bounds of the model.                                                    *)

MaxDuration == 2         \* largest duration of a ticket of the store
Today == 4               \* date.today() of the first session; day 0 is a Monday
DaysInThePast == 1       \* config["days_in_the_past"]
DaysInTheFuture == 6     \* config["days_in_the_future"]

TicketIds == {1, 2, 3}
ProjectIds == {1}
NoProject == 0           \* a ticket whose project is null
NoDate == -1             \* a null date
Null == FALSE            \* a null boolean column, false when it is read

\* One member: scheduled lane, backlog lane, spacer (headers name/Backlog/"").
Columns == 0..1

\* the "member" table: Member.free_time_percentage of each owner
Members == {"full", "most", "half"}
free_time_percentage(owner) ==
    CASE owner = "full" -> 100
      [] owner = "most" -> 75
      [] owner = "half" -> 50

----------------------------------------------------------------------------
(* Calendar and grid lookups.                                              *)

weekday(d) == d % 7

RECURSIVE WorkdaysFrom(_, _)
WorkdaysFrom(d, n) ==
    IF n = 0 THEN <<>>
    ELSE IF weekday(d) <= 4 THEN <<d>> \o WorkdaysFrom(d + 1, n - 1)
         ELSE WorkdaysFrom(d + 1, n - 1)

RECURSIVE NextWeekday(_)
NextWeekday(d) == IF weekday(d) >= 5 THEN NextWeekday(d + 1) ELSE d

\* my_functions.add_workdays
RECURSIVE add_workdays(_, _)
add_workdays(my_date, workdays) ==
    IF workdays <= 0 THEN my_date
    ELSE add_workdays(NextWeekday(my_date + 1), workdays - 1)

\* date.today() - timedelta(days=config["days_in_the_past"])
date_first_row_from_parameters(day) == day - DaysInThePast

\* GridInitializer._compute_days_displayed
compute_days_displayed(first_day, day) ==
    WorkdaysFrom(first_day, (day - first_day) + DaysInTheFuture)

rowCount == Len(days_displayed)
Rows == 0..(rowCount - 1)

get_date_from_row(row) == days_displayed[row + 1]

get_row_from_date(d) ==
    CHOOSE r \in Rows : days_displayed[r + 1] = NextWeekday(d)

get_today_row == get_row_from_date(today)

\* horizontalHeaderItem(column).text() = config["column_backlog_name"]
IsBacklog(column) == column % 3 = 1

get_column_owner_backlog(t) == 0 + 1

----------------------------------------------------------------------------
(* The store seen as one value, so that nested calls can be composed.      *)

\* failed: an exception was raised; asserted: it was the assertion on the
\* first or last cell of a scheduled ticket
DB == [cell |-> cell, ticket |-> ticket, project |-> project, failed |-> FALSE,
       asserted |-> FALSE]

Exists(db, t) == t \in DOMAIN db.ticket

get_cells(db, t) == {c \in db.cell : c.ticket = t}

project_or_none(db, t) ==
    IF db.ticket[t].project \in DOMAIN db.project
    THEN db.ticket[t].project ELSE NoProject

\* no status asks for the ticket to be erased
needs_being_erased_never(db, t) == FALSE

needs_being_erased(db, t) ==
    IF project_or_none(db, t) = NoProject THEN FALSE
    ELSE ~db.project[project_or_none(db, t)].is_drawn

\* the division rounded down
duration_floor(db, p) ==
    (db.project[p].charge * 100) \div free_time_percentage(db.project[p].owner)

\* math.ceil(charge / free_time_percentage * 100)
duration(db, p) ==
    (db.project[p].charge * 100
        + free_time_percentage(db.project[p].owner) - 1)
            \div free_time_percentage(db.project[p].owner)

RECURSIVE SumDurations(_, _)
SumDurations(db, ts) ==
    IF ts = {} THEN 0
    ELSE LET t == CHOOSE x \in ts : TRUE
         IN db.ticket[t].duration + SumDurations(db, ts \ {t})

tickets_of(db, p) == {t \in DOMAIN db.ticket : db.ticket[t].project = p}

get_tickets_duration(db, p) == SumDurations(db, tickets_of(db, p))

Max(a, b) == IF a >= b THEN a ELSE b

\* the length left negative when the advancement exceeds the duration
get_length_from_model_unclamped(db, t) ==
    LET d == IF db.ticket[t].duration # 0 THEN db.ticket[t].duration
             ELSE duration(db, db.ticket[t].project)
                    - get_tickets_duration(db, db.ticket[t].project)
    IN d - db.ticket[t].advancement

get_length_from_model(db, t) ==
    LET d == IF db.ticket[t].duration # 0 THEN db.ticket[t].duration
             ELSE duration(db, db.ticket[t].project)
                    - get_tickets_duration(db, db.ticket[t].project)
    IN Max(d - db.ticket[t].advancement, 0)

length(db, t) ==
    IF needs_being_erased(db, t) THEN 0 ELSE get_length_from_model(db, t)

MinRow(cs) == CHOOSE r \in {c.row : c \in cs} : \A c \in cs : r <= c.row
MaxRowOf(cs) == CHOOSE r \in {c.row : c \in cs} : \A c \in cs : r >= c.row

\* first_cell_or_none / last_cell_or_none: the lowest / highest row, or -1
first_row_or_none(db, t) ==
    IF get_cells(db, t) = {} THEN -1 ELSE MinRow(get_cells(db, t))

last_row_or_none(db, t) ==
    IF get_cells(db, t) = {} THEN -1 ELSE MaxRowOf(get_cells(db, t))

----------------------------------------------------------------------------
(* Project date rollup.                                                    *)

get_tickets_scheduled(db, p) ==
    {t \in tickets_of(db, p) : db.ticket[t].is_scheduled = TRUE}

\* the check of the backlog left out
is_fully_scheduled_always(db, p) == TRUE

is_fully_scheduled(db, p) ==
    \A t \in tickets_of(db, p) :
        db.ticket[t].is_scheduled = FALSE => length(db, t) = 0

\* the assertions "first_cell is not None" / "last_cell is not None"
AssertCells(db, p) ==
    \A t \in get_tickets_scheduled(db, p) : get_cells(db, t) # {}

SetMin(S) == CHOOSE x \in S : \A y \in S : x <= y
SetMax(S) == CHOOSE x \in S : \A y \in S : x >= y

\* the latest first row taken in place of the earliest
start_date_latest(db, p) ==
    LET ds == {get_date_from_row(first_row_or_none(db, t)) :
                 t \in get_tickets_scheduled(db, p)}
    IN IF ds = {} THEN NoDate ELSE SetMax(ds)

start_date(db, p) ==
    LET ds == {get_date_from_row(first_row_or_none(db, t)) :
                 t \in get_tickets_scheduled(db, p)}
    IN IF ds = {} THEN NoDate ELSE SetMin(ds)

end_date(db, p) ==
    LET ds == {get_date_from_row(last_row_or_none(db, t)) :
                 t \in get_tickets_scheduled(db, p)}
    IN IF is_fully_scheduled(db, p) /\ ds # {} THEN SetMax(ds) ELSE NoDate

----------------------------------------------------------------------------
(* Ticket.update_models and its three steps.                               *)

\* the row below not looked at: every cell is a bottom cell
update_model_no_below(db, c) ==
    [c EXCEPT
       !.is_top_cell = ~\E a \in db.cell :
            a.row = c.row - 1 /\ a.column = c.column /\ a.ticket = c.ticket,
       !.is_bottom_cell = TRUE]

update_model(db, c) ==
    [c EXCEPT
       !.is_top_cell = ~\E a \in db.cell :
            a.row = c.row - 1 /\ a.column = c.column /\ a.ticket = c.ticket,
       !.is_bottom_cell = ~\E a \in db.cell :
            a.row = c.row + 1 /\ a.column = c.column /\ a.ticket = c.ticket]

update_cell_models(db, t) ==
    [db EXCEPT !.cell = {c \in db.cell : c.ticket # t}
                          \cup {update_model(db, c) : c \in get_cells(db, t)}]

\* the header of the column not looked at
update_ticket_model_any_lane(db, t) ==
    [db EXCEPT !.ticket[t].is_scheduled =
                  (get_cells(db, t) # {} /\ length(db, t) # 0)]

update_ticket_model(db, t) ==
    LET cs == get_cells(db, t)
        sched == IF cs = {} THEN FALSE
                 ELSE LET c == CHOOSE x \in cs : TRUE
                      IN ~IsBacklog(c.column) /\ length(db, t) # 0
    IN [db EXCEPT !.ticket[t].is_scheduled = sched]

\* verticalHeaderItem(row) is None for a row the grid does not have
HasRows(db, p) ==
    \A t \in get_tickets_scheduled(db, p) :
        /\ first_row_or_none(db, t) \in Rows
        /\ is_fully_scheduled(db, p) => last_row_or_none(db, t) \in Rows

update_project_model(db, t) ==
    LET p == project_or_none(db, t)
    IN IF p = NoProject THEN db
       ELSE IF ~AssertCells(db, p) \/ ~HasRows(db, p)
            THEN [db EXCEPT !.failed = TRUE,
                            !.asserted = ~AssertCells(db, p)]
       ELSE [db EXCEPT !.project[p].start_date = start_date(db, p),
                       !.project[p].end_date = end_date(db, p)]

update_models(db, t) ==
    update_project_model(update_ticket_model(update_cell_models(db, t), t), t)

----------------------------------------------------------------------------
(* TicketMover.                                                            *)

\* a move that forgets to erase the mover's old cells
erase_nothing(db, t) == db

\* a loop that stops after the first cell
erase_one_cell(db, t) ==
    [db EXCEPT !.cell = {c \in db.cell :
        c.ticket # t \/ c.row # MinRow(get_cells(db, t))}]

erase(db, t) == [db EXCEPT !.cell = {c \in db.cell : c.ticket # t}]

\* _init_values: the cells at or below the target and the rows to skip
rows_taken(db, row, column) ==
    {c \in db.cell : c.column = column /\ c.row >= row}

\* the rows to skip, forgetting that fixed tickets block
rows_fixed_no_fixed(db, row, column, force_move) ==
    {c.row : c \in {x \in rows_taken(db, row, column) : ~force_move}}

\* the rows to skip, forgetting that a non-forced move displaces nothing
rows_fixed_no_force(db, row, column, force_move) ==
    {c.row : c \in {x \in rows_taken(db, row, column) :
                       db.ticket[x.ticket].is_fixed}}

rows_fixed(db, row, column, force_move) ==
    {c.row : c \in {x \in rows_taken(db, row, column) :
                       db.ticket[x.ticket].is_fixed \/ ~force_move}}

\* an "if" in place of the "while": one fixed row skipped at most
skip_fixed_once(current_row, fixed) ==
    IF current_row \in fixed THEN current_row + 1 ELSE current_row

RECURSIVE skip_fixed(_, _)
skip_fixed(current_row, fixed) ==
    IF current_row \in fixed THEN skip_fixed(current_row + 1, fixed)
    ELSE current_row

\* the displaced ticket pushed at the front of the queue
insert_ticket_cell_front(w, current_row, column, taken) ==
    LET ticket_id == Head(w.queue)
        old == {c \in taken : c.row = current_row}
    IN IF old # {}
       THEN LET o == CHOOSE c \in old : TRUE
            IN [w EXCEPT
                  !.cell = {IF c.row = current_row /\ c.column = column
                            THEN [c EXCEPT !.ticket = ticket_id] ELSE c
                            : c \in w.cell},
                  !.queue = <<o.ticket>> \o Tail(w.queue),
                  !.update = w.update \cup {o.ticket}]
       ELSE [w EXCEPT
               !.queue = Tail(w.queue),
               !.create = w.create \cup
                   {[row |-> current_row, column |-> column,
                     ticket |-> ticket_id,
                     is_top_cell |-> Null, is_bottom_cell |-> Null]}]

\* the displaced ticket not pushed back on the queue
insert_ticket_cell_lost(w, current_row, column, taken) ==
    LET ticket_id == Head(w.queue)
        old == {c \in taken : c.row = current_row}
    IN IF old # {}
       THEN LET o == CHOOSE c \in old : TRUE
            IN [w EXCEPT
                  !.cell = {IF c.row = current_row /\ c.column = column
                            THEN [c EXCEPT !.ticket = ticket_id] ELSE c
                            : c \in w.cell},
                  !.queue = Tail(w.queue),
                  !.update = w.update \cup {o.ticket}]
       ELSE [w EXCEPT
               !.queue = Tail(w.queue),
               !.create = w.create \cup
                   {[row |-> current_row, column |-> column,
                     ticket |-> ticket_id,
                     is_top_cell |-> Null, is_bottom_cell |-> Null]}]

\* _insert_ticket_cell on the mover's working state
\*   w.cell: the cell table, w.queue: _ticket_cells_to_insert,
\*   w.create: _ticket_cells_to_create, w.update: _tickets_to_update
insert_ticket_cell(w, current_row, column, taken) ==
    LET ticket_id == Head(w.queue)
        old == {c \in taken : c.row = current_row}
    IN IF old # {}
       THEN LET o == CHOOSE c \in old : TRUE
            IN [w EXCEPT
                  !.cell = {IF c.row = current_row /\ c.column = column
                            THEN [c EXCEPT !.ticket = ticket_id] ELSE c
                            : c \in w.cell},
                  !.queue = Append(Tail(w.queue), o.ticket),
                  !.update = w.update \cup {o.ticket}]
       ELSE [w EXCEPT
               !.queue = Tail(w.queue),
               !.create = w.create \cup
                   {[row |-> current_row, column |-> column,
                     ticket |-> ticket_id,
                     is_top_cell |-> Null, is_bottom_cell |-> Null]}]

RECURSIVE walk(_, _, _, _, _)
walk(w, current_row, column, taken, fixed) ==
    IF w.queue = <<>> THEN w
    ELSE LET r == skip_fixed(current_row, fixed)
         IN walk(insert_ticket_cell(w, r, column, taken),
                 r + 1, column, taken, fixed)

\* the bulk insert left out
create_new_cells_none(w) == w.cell

create_new_cells(w) == w.cell \cup w.create

RECURSIVE draw_tickets(_, _)
draw_tickets(db, order) ==
    IF order = <<>> \/ db.failed THEN db
    ELSE draw_tickets(update_models(db, Head(order)), Tail(order))

\* the walk started one row below the target
mover_walk_next_row(db, t, row, column, force_move) ==
    walk([cell |-> db.cell,
          queue |-> [i \in 1..length(db, t) |-> t],
          create |-> {},
          update |-> {t}],
         row + 1, column,
         rows_taken(db, row + 1, column),
         rows_fixed(db, row + 1, column, force_move))

\* the result of the walk of TicketMover.move_to, before the cells are created
mover_walk(db, t, row, column, force_move) ==
    walk([cell |-> db.cell,
          queue |-> [i \in 1..length(db, t) |-> t],
          create |-> {},
          update |-> {t}],
         row, column,
         rows_taken(db, row, column),
         rows_fixed(db, row, column, force_move))

\* the orders in which a set can be iterated
Orders(S) ==
    {o \in [1..Cardinality(S) -> S] : \A i, j \in DOMAIN o : i # j => o[i] # o[j]}

mover_move_to(db, t, row, column, force_move, order) ==
    LET w == mover_walk(db, t, row, column, force_move)
    IN draw_tickets([db EXCEPT !.cell = create_new_cells(w)], order)

move_to(db, t, row, column, force_move, order) ==
    mover_move_to(erase(db, t), t, row, column, force_move, order)

\* the tickets _draw_tickets iterates over, and the rows the walk reaches
tickets_to_update(db, t, row, column, force_move) ==
    mover_walk(erase(db, t), t, row, column, force_move).update

RowsUsed(db, t, row, column, force_move) ==
    {c.row : c \in mover_walk(erase(db, t), t, row, column, force_move).create}

----------------------------------------------------------------------------
(* Ticket.refresh, Ticket.delete and Project.refresh call one another.     *)

\* the order of an unordered SELECT: ascending primary key
RECURSIVE Ascending(_)
Ascending(S) ==
    IF S = {} THEN <<>>
    ELSE <<SetMin(S)>> \o Ascending(S \ {SetMin(S)})

SomeOrder(S) == CHOOSE o \in Orders(S) : TRUE

RECURSIVE refresh(_, _)
RECURSIVE delete(_, _)
RECURSIVE project_refresh(_, _)

\* the ticket of length 0 erased and left scheduled
refresh_left_scheduled(db, t) ==
    IF db.failed \/ ~Exists(db, t) THEN db
    ELSE IF needs_being_erased(db, t) THEN delete(db, t)
    ELSE IF length(db, t) = 0 THEN erase(db, t)
    ELSE LET cs == get_cells(db, t)
             first_cell == CHOOSE c \in cs : c.row = MinRow(cs)
             row == IF cs # {} THEN first_cell.row ELSE get_today_row
             column == IF cs # {} THEN first_cell.column
                       ELSE get_column_owner_backlog(t)
         IN move_to(db, t, row, column, FALSE,
                    SomeOrder(tickets_to_update(db, t, row, column, FALSE)))

\* the ticket placed again with force_move=True
refresh_forced(db, t) ==
    IF db.failed \/ ~Exists(db, t) THEN db
    ELSE IF needs_being_erased(db, t) THEN delete(db, t)
    ELSE IF length(db, t) = 0
         THEN [erase(db, t) EXCEPT !.ticket[t].is_scheduled = FALSE]
    ELSE LET cs == get_cells(db, t)
             first_cell == CHOOSE c \in cs : c.row = MinRow(cs)
             row == IF cs # {} THEN first_cell.row ELSE get_today_row
             column == IF cs # {} THEN first_cell.column
                       ELSE get_column_owner_backlog(t)
         IN move_to(db, t, row, column, TRUE,
                    SomeOrder(tickets_to_update(db, t, row, column, TRUE)))

refresh(db, t) ==
    IF db.failed \/ ~Exists(db, t) THEN db
    ELSE IF needs_being_erased(db, t) THEN delete(db, t)
    ELSE IF length(db, t) = 0
         THEN [erase(db, t) EXCEPT !.ticket[t].is_scheduled = FALSE]
    ELSE LET cs == get_cells(db, t)
             first_cell == CHOOSE c \in cs : c.row = MinRow(cs)
             row == IF cs # {} THEN first_cell.row ELSE get_today_row
             column == IF cs # {} THEN first_cell.column
                       ELSE get_column_owner_backlog(t)
         IN move_to(db, t, row, column, FALSE,
                    SomeOrder(tickets_to_update(db, t, row, column, FALSE)))

delete(db, t) ==
    LET p == project_or_none(db, t)
        erased == erase(db, t)
        deleted == [erased EXCEPT
                      !.ticket = [x \in DOMAIN erased.ticket \ {t}
                                    |-> erased.ticket[x]]]
    IN IF p = NoProject THEN deleted
       ELSE project_refresh(deleted, Ascending(tickets_of(deleted, p)))

\* Project.refresh over the list of tickets read before the loop
project_refresh(db, ts) ==
    IF ts = <<>> THEN db
    ELSE project_refresh(refresh(db, Head(ts)), Tail(ts))

\* the loop of Project.delete over the tickets read before the loop; a
\* ticket deleted meanwhile has nothing left to erase or to delete, and its
\* project is refreshed all the same
RECURSIVE delete_tickets(_, _, _)
delete_tickets(db, p, ts) ==
    IF ts = <<>> \/ db.failed THEN db
    ELSE delete_tickets(
             IF Exists(db, Head(ts)) THEN delete(db, Head(ts))
             ELSE project_refresh(db, Ascending(tickets_of(db, p))),
             p, Tail(ts))

\* Project.delete
project_delete(db, p) ==
    LET deleted == delete_tickets(db, p, Ascending(tickets_of(db, p)))
    IN [deleted EXCEPT
          !.project = [x \in DOMAIN deleted.project \ {p}
                         |-> deleted.project[x]]]

----------------------------------------------------------------------------
(* Initial stores: tickets and projects entered, nothing drawn yet.        *)

NewTicket(p, fixed, d) ==
    [project |-> p, is_fixed |-> fixed, duration |-> d,
     advancement |-> 0, is_scheduled |-> FALSE]

NewProject ==
    [is_drawn |-> TRUE, charge |-> MaxDuration + 1, owner |-> "full",
     start_date |-> NoDate, end_date |-> NoDate]

\* the grid as GridInitializer leaves it when the board is opened on a day
\* with the first day of the parameters
Session(day) ==
    /\ today = day
    /\ days_displayed =
          compute_days_displayed(date_first_row_from_parameters(day), day)
    /\ first_row = days_displayed[1]
    /\ run = [op |-> "idle"]

FirstSession == Session(Today)

\* one project split in two tickets
Init ==
    /\ FirstSession
    /\ cell = {}
    /\ ticket = [t \in {1, 2} |->
                   NewTicket(1, FALSE, IF t = 1 THEN MaxDuration ELSE 1)]
    /\ project = [p \in ProjectIds |-> NewProject]
    /\ last = [op |-> "init"]

\* the same project and a ticket without project, fixed or not
InitMove ==
    /\ FirstSession
    /\ cell = {}
    /\ \E f \in BOOLEAN :
         ticket = [t \in TicketIds |->
                     IF t = 3 THEN NewTicket(NoProject, f, MaxDuration)
                     ELSE NewTicket(1, FALSE, IF t = 1 THEN MaxDuration ELSE 1)]
    /\ project = [p \in ProjectIds |-> NewProject]
    /\ last = [op |-> "init"]

Store(db) ==
    /\ cell' = db.cell
    /\ ticket' = db.ticket
    /\ project' = db.project

\* the model stops at the last row of the grid
InGrid(db) == \A c \in db.cell : c.row \in Rows

----------------------------------------------------------------------------
(* Operations.                                                             *)

\* Ticket.move_to(row, column, force_move)
MoveTo(t, row, column, force_move) ==
    /\ run.op = "idle"
    /\ t \in DOMAIN ticket
    /\ RowsUsed(DB, t, row, column, force_move) \subseteq Rows
    /\ \E order \in Orders(tickets_to_update(DB, t, row, column, force_move)) :
         LET db == move_to(DB, t, row, column, force_move, order)
         IN /\ ~db.failed
            /\ Store(db)
    /\ last' = [op |-> "move_to", ticket |-> t, row |-> row,
                column |-> column, force_move |-> force_move,
                updated |-> tickets_to_update(DB, t, row, column, force_move)]
    /\ UNCHANGED grid

\* Ticket.refresh()
Refresh(t) ==
    /\ t \in DOMAIN ticket
    /\ LET db == refresh(DB, t)
       IN /\ ~db.failed
          /\ InGrid(db)
          /\ Store(db)
    /\ last' = [op |-> "refresh", ticket |-> t,
                project |-> project_or_none(DB, t)]
    /\ UNCHANGED grid

\* Ticket.delete()
Delete(t) ==
    /\ t \in DOMAIN ticket
    /\ LET db == delete(DB, t)
       IN /\ ~db.failed
          /\ InGrid(db)
          /\ Store(db)
    /\ last' = [op |-> "delete", ticket |-> t,
                project |-> project_or_none(DB, t)]
    /\ UNCHANGED grid

\* ProjectModifierWidget._handle_ok on an existing project: the status and
\* the advancement of its tickets are saved, then every ticket is refreshed
save_values(db, p, is_drawn, adv) ==
    [db EXCEPT
       !.project[p].is_drawn = is_drawn,
       !.ticket = [t \in DOMAIN db.ticket |->
                     IF db.ticket[t].project = p
                     THEN [db.ticket[t] EXCEPT !.advancement = adv[t]]
                     ELSE db.ticket[t]]]

HandleOk(p, is_drawn, adv) ==
    /\ tickets_of(DB, p) # {}
    /\ LET saved == save_values(DB, p, is_drawn, adv)
           db == project_refresh(saved, Ascending(tickets_of(saved, p)))
       IN /\ ~db.failed
          /\ InGrid(db)
          /\ Store(db)
    /\ last' = [op |-> "handle_ok", project |-> p]
    /\ UNCHANGED grid

\* CellMenu._delete_project on a cell of a ticket of the project
DeleteProject(p) ==
    /\ p \in DOMAIN project
    /\ \E c \in cell : ticket[c.ticket].project = p
    /\ LET db == project_delete(DB, p)
       IN /\ ~db.failed
          /\ InGrid(db)
          /\ Store(db)
    /\ last' = [op |-> "delete_project", project |-> p,
                tickets |-> tickets_of(DB, p),
                cells |-> {c \in cell : ticket[c.ticket].project = p}]
    /\ UNCHANGED grid

Next ==
    \/ \E t \in TicketIds, row \in Rows, column \in Columns,
          force_move \in BOOLEAN : MoveTo(t, row, column, force_move)
    \/ \E t \in TicketIds : Refresh(t)
    \/ \E t \in TicketIds : Delete(t)
    \/ \E p \in ProjectIds : DeleteProject(p)
    \/ \E p \in ProjectIds, is_drawn \in BOOLEAN,
          adv \in [DOMAIN ticket -> 0..MaxDuration] : HandleOk(p, is_drawn, adv)

Spec == Init /\ [][Next]_vars

\* the placement engine alone, on the scheduled lane
NextMove ==
    \E t \in TicketIds, row \in Rows, force_move \in BOOLEAN :
        MoveTo(t, row, 0, force_move)

SpecMove == InitMove /\ [][NextMove]_vars

----------------------------------------------------------------------------
(* A new project with the single ticket of its remainder, on a board       *)
(* opened on a working day or during the weekend.                          *)

InitPlace ==
    /\ \E day \in {Today, Today + 1} : Session(day)
    /\ cell = {}
    /\ \E advancement \in 0..MaxDuration :
         ticket = [t \in {1} |->
                     [NewTicket(1, FALSE, 0) EXCEPT !.advancement = advancement]]
    /\ \E owner \in Members, charge \in 1..MaxDuration :
         project = [p \in ProjectIds |->
                      [NewProject EXCEPT !.owner = owner, !.charge = charge]]
    /\ last = [op |-> "init"]

NextPlace ==
    \E row \in Rows, column \in Columns, force_move \in BOOLEAN :
        MoveTo(1, row, column, force_move)

SpecPlace == InitPlace /\ [][NextPlace]_vars

----------------------------------------------------------------------------
(* The project dialog taken step by step: _handle_ok saves the values,     *)
(* then _refresh_tickets refreshes the tickets of the project one by one.  *)

\* a project with the ticket of its remainder (duration 0), a ticket of
\* one day, and a ticket without project
InitDialog ==
    /\ FirstSession
    /\ cell = {}
    /\ ticket = [t \in TicketIds |->
                   IF t = 3 THEN NewTicket(NoProject, FALSE, 1)
                   ELSE NewTicket(1, FALSE, IF t = 1 THEN 0 ELSE 1)]
    /\ project = [p \in ProjectIds |-> [NewProject EXCEPT !.owner = "most"]]
    /\ last = [op |-> "init"]

\* _save_project_values and _save_ticket_values, then the list of
\* _get_ticket_models
SaveProject(p, is_drawn, adv) ==
    /\ run.op = "idle"
    /\ tickets_of(DB, p) # {}
    /\ LET saved == save_values(DB, p, is_drawn, adv)
       IN /\ Store(saved)
          /\ run' = [op |-> "refresh_tickets",
                     tickets |-> Ascending(tickets_of(saved, p))]
    /\ last' = [op |-> "save", project |-> p]
    /\ UNCHANGED <<days_displayed, today, first_row>>

\* one iteration of the loop of _refresh_tickets
RefreshNext ==
    /\ run.op = "refresh_tickets"
    /\ LET t == Head(run.tickets)
           db == refresh(DB, t)
       IN /\ ~db.failed
          /\ InGrid(db)
          /\ Store(db)
          /\ last' = [op |-> "refresh", ticket |-> t,
                      project |-> IF Exists(DB, t)
                                  THEN project_or_none(DB, t) ELSE NoProject]
          /\ run' = IF Tail(run.tickets) = <<>> THEN [op |-> "idle"]
                    ELSE [run EXCEPT !.tickets = Tail(run.tickets)]
    /\ UNCHANGED <<days_displayed, today, first_row>>

NextDialog ==
    \/ \E t \in TicketIds, row \in Rows : MoveTo(t, row, 0, FALSE)
    \/ \E p \in ProjectIds, is_drawn \in BOOLEAN :
          \E adv \in [tickets_of(DB, p) -> 0..MaxDuration] :
              SaveProject(p, is_drawn, adv)
    \/ RefreshNext

SpecDialog == InitDialog /\ [][NextDialog]_vars

----------------------------------------------------------------------------
(* GridInitializer: the rebase of the cells when the board is opened.      *)

MaxElapsed == 5          \* the board is opened again at most that many days later
MaxRewind == 2           \* the clock is set back at most that many days

\* the first day taken from the parameters, whatever the cells
compute_first_day_nominal(cells, date_first_row_old, day) ==
    date_first_row_from_parameters(day)

compute_first_day(cells, date_first_row_old, day) ==
    LET empty_rows_quantity == MinRow(cells)
        date_first_cell_old ==
            add_workdays(date_first_row_old, empty_rows_quantity)
    IN IF date_first_cell_old < date_first_row_from_parameters(day)
       THEN date_first_cell_old
       ELSE date_first_row_from_parameters(day)

\* the days of the calendar counted in place of the working days
get_delta_cells_calendar(first_date_old, first_date_new) ==
    first_date_new - first_date_old

RECURSIVE get_delta_cells(_, _)
get_delta_cells(first_date_old, first_date_new) ==
    IF first_date_old = first_date_new THEN 0
    ELSE LET step == IF first_date_old < first_date_new THEN 1 ELSE -1
         IN (IF weekday(first_date_old) <= 4 THEN step ELSE 0)
              + get_delta_cells(first_date_old + step, first_date_new)

\* ORDER BY row, ascending or descending; rows of the same rank in any order
order_by_row(cells, ascending) ==
    {o \in Orders(cells) :
        \A i, j \in DOMAIN o :
            i < j => IF ascending THEN o[i].row <= o[j].row
                                  ELSE o[i].row >= o[j].row}

\* the descending order whatever the sign of delta
get_cells_ordered_descending(cells, delta) ==
    IF delta = 0 THEN {<<>>} ELSE order_by_row(cells, FALSE)

get_cells_ordered(cells, delta) ==
    IF delta > 0 THEN order_by_row(cells, TRUE)
    ELSE IF delta < 0 THEN order_by_row(cells, FALSE)
    ELSE {<<>>}

\* the marker left as it was
update_first_row_kept(date_old, first_date_new) == date_old

\* FirstRow.get().update(date=first_date_new).execute()
update_first_row(date_old, first_date_new) == first_date_new

\* the store left by a first session: ticket 1 dropped on the scheduled
\* lane, ticket 2 placed next
Drawn(r1, r2, c2) ==
    LET db0 == [cell |-> {},
                ticket |-> [t \in {1, 2} |->
                    NewTicket(1, FALSE, IF t = 1 THEN MaxDuration ELSE 1)],
                project |-> [p \in ProjectIds |-> NewProject],
                failed |-> FALSE, asserted |-> FALSE]
        db1 == move_to(db0, 1, r1, 0, TRUE, <<1>>)
    IN move_to(db1, 2, r2, c2, FALSE, <<2>>)

InitRebase ==
    /\ FirstSession
    /\ \E r1 \in Rows, r2 \in Rows, c2 \in Columns :
         LET db == Drawn(r1, r2, c2)
         IN /\ ~db.failed
            /\ InGrid(db)
            /\ cell = db.cell
            /\ ticket = db.ticket
            /\ project = db.project
    /\ last = [op |-> "init"]

\* initialize_grid up to the loop of _move_all_cells_up: the first day, the
\* rows, delta and the cells in the order of the loop
OpenBoard(day) ==
    /\ run.op = "idle"
    /\ cell # {}
    /\ LET first_day == compute_first_day(cell, first_row, day)
           days == compute_days_displayed(first_day, day)
           first_date_new == days[1]
           delta == get_delta_cells(first_row, first_date_new)
       IN /\ today' = day
          /\ days_displayed' = days
          /\ \E cells_ordered \in get_cells_ordered(cell, delta) :
                run' = [op |-> "move_all_cells_up",
                        cells_ordered |-> cells_ordered,
                        delta |-> delta,
                        first_date_new |-> first_date_new]
    /\ last' = [op |-> "open", cells |-> cell, first_row |-> first_row,
                again |-> (last.op = "rebase" /\ day = today)]
    /\ UNCHANGED <<cell, ticket, project, first_row>>

\* one iteration of the loop: delete_instance, row - delta, force_insert
MoveCellUp ==
    /\ run.op = "move_all_cells_up"
    /\ run.cells_ordered # <<>>
    /\ LET c == Head(run.cells_ordered)
       IN /\ cell' = {x \in cell : ~(x.row = c.row /\ x.column = c.column)}
                        \cup {[c EXCEPT !.row = c.row - run.delta]}
          /\ last' = [op |-> "move_cell", cell |-> c, cells |-> last.cells,
                      first_row |-> last.first_row, again |-> last.again]
    /\ run' = [run EXCEPT !.cells_ordered = Tail(run.cells_ordered)]
    /\ UNCHANGED <<ticket, project, days_displayed, today, first_row>>

\* the end of _move_all_cells_up: the marker takes the date of row 0
UpdateFirstRow ==
    /\ run.op = "move_all_cells_up"
    /\ run.cells_ordered = <<>>
    /\ first_row' = update_first_row(first_row, run.first_date_new)
    /\ run' = [op |-> "idle"]
    /\ last' = [op |-> "rebase", cells |-> last.cells,
                first_row |-> last.first_row, again |-> last.again]
    /\ UNCHANGED <<cell, ticket, project, days_displayed, today>>

NextRebase ==
    \/ \E day \in (Today - MaxRewind)..(Today + MaxElapsed) : OpenBoard(day)
    \/ MoveCellUp
    \/ UpdateFirstRow

SpecRebase == InitRebase /\ [][NextRebase]_vars

----------------------------------------------------------------------------
(* Operations that stop half-way: no write of the store is in a            *)
(* transaction, so what was written before the failure stays written.      *)

\* Ticket.move_to raising in _update_project_model (a scheduled ticket whose
\* last row is below the grid has no header to read its date from): the
\* cells, the flags and the tickets saved before the exception are kept
MoveToFails(t, row, column, force_move) ==
    /\ run.op = "idle"
    /\ t \in DOMAIN ticket
    /\ \E order \in Orders(tickets_to_update(DB, t, row, column, force_move)) :
         LET db == move_to(DB, t, row, column, force_move, order)
         IN /\ db.failed
            /\ Store(db)
    /\ last' = [op |-> "move_to_failed", ticket |-> t, row |-> row,
                column |-> column, force_move |-> force_move,
                before |-> [cell |-> cell, ticket |-> ticket,
                            project |-> project]]
    /\ UNCHANGED grid

\* the process stopped inside the loop of _move_all_cells_up, or after it
\* and before the marker is written
Interrupt ==
    /\ run.op = "move_all_cells_up"
    /\ run' = [op |-> "idle"]
    /\ last' = [op |-> "interrupted", cells |-> last.cells,
                first_row |-> last.first_row, delta |-> run.delta,
                first_date_new |-> run.first_date_new]
    /\ UNCHANGED <<cell, ticket, project, days_displayed, today, first_row>>

\* the model stops at the first failure
Alive == last.op \notin {"interrupted", "move_to_failed"}

NextCrash ==
    \/ Alive /\ NextRebase
    \/ Alive /\ Interrupt
    \/ \E t \in TicketIds, row \in Rows, force_move \in BOOLEAN :
          Alive /\ MoveToFails(t, row, 0, force_move)

SpecCrash == InitRebase /\ [][NextCrash]_vars

----------------------------------------------------------------------------
(* Vocabulary of the properties.                                           *)

Lowest(S) == CHOOSE x \in S : \A y \in S : x <= y
Highest(S) == CHOOSE x \in S : \A y \in S : x >= y
IsRun(S) == S = {} \/ S = Lowest(S)..Highest(S)

\* the rows a ticket holds in a column, in a given cell table
RowsOf(cs, t, column) ==
    {c.row : c \in {x \in cs : x.ticket = t /\ x.column = column}}

CountOf(cs, t) == Cardinality({c \in cs : c.ticket = t})

\* a cell without its border flags
Place(c) == <<c.row, c.column, c.ticket>>
PlacesOf(cs, t) == {Place(c) : c \in {x \in cs : x.ticket = t}}

\* the step just taken is Ticket.move_to, with the arguments kept in last'
Moved == last'.op = "move_to"
Forced == Moved /\ last'.force_move
Unforced == Moved /\ ~last'.force_move

\* the cells of the other tickets of the target column, at or below the
\* target row, before the move
Below == {c \in cell : /\ c.ticket # last'.ticket
                       /\ c.column = last'.column
                       /\ c.row >= last'.row}

\* the rows the walk of the move must skip
Skipped ==
    {c.row : c \in {x \in Below : ticket[x.ticket].is_fixed \/ ~last'.force_move}}

\* the first n rows at or after row that are not in skip
FirstRows(n, row, skip) ==
    {r \in row..(row + n + Cardinality(skip)) :
        /\ r \notin skip
        /\ Cardinality({y \in row..r : y \notin skip}) <= n}

ResolvedRow == Lowest({r \in last'.row..(last'.row + Cardinality(Skipped)) :
                          r \notin Skipped})

MoverRows == RowsOf(cell', last'.ticket, last'.column)
MoverLength == length(DB, last'.ticket)

----------------------------------------------------------------------------
(* C1: after a move_to, forced or not, the cells of the placed ticket in   *)
(* the target column are exactly ticket.length cells, on the first         *)
(* ticket.length rows at or after the target row that the walk does not    *)
(* skip; the run is in one piece when no skipped row lies inside the span. *)
C1_Placement ==
    [][Moved =>
         /\ MoverRows = FirstRows(MoverLength, last'.row, Skipped)
         /\ Cardinality(MoverRows) = MoverLength
         /\ CountOf(cell', last'.ticket) = MoverLength
         /\ (\A r \in Skipped : MoverRows # {} =>
                 r < Lowest(MoverRows) \/ r > Highest(MoverRows))
              => IsRun(MoverRows)]_vars

\* C1 as stated: one contiguous run of ticket.length rows starting at the
\* resolved row, whatever the layout of the column
C1_Original ==
    [][Moved /\ MoverLength > 0 =>
         MoverRows = ResolvedRow..(ResolvedRow + MoverLength - 1)]_vars

\* a move has left the placed ticket in two pieces around a skipped row
C1_Witness ==
    /\ last.op = "move_to"
    /\ CountOf(cell, last.ticket) = 2
    /\ ~IsRun(RowsOf(cell, last.ticket, last.column))

----------------------------------------------------------------------------
(* C2: after any sequence of move_to operations every ticket that has      *)
(* cells owns exactly ticket.length cells, all in one column; a move keeps *)
(* every ticket in one piece when the walk has no row to skip at or after  *)
(* the target and the target row is not strictly inside another ticket's   *)
(* run.                                                                    *)
OneColumn(cs, t) ==
    Cardinality({c.column : c \in {x \in cs : x.ticket = t}}) <= 1

InOnePiece(cs, t) == \A column \in Columns : IsRun(RowsOf(cs, t, column))

\* the target row has cells of one other ticket above it and at or below it
Straddled ==
    \E b \in DOMAIN ticket \ {last'.ticket} :
        /\ \E r \in RowsOf(cell, b, last'.column) : r < last'.row
        /\ \E r \in RowsOf(cell, b, last'.column) : r >= last'.row

C2_Pieces ==
    [][/\ \A t \in DOMAIN ticket' :
            /\ CountOf(cell', t) \in {0, length(DB, t)'}
            /\ OneColumn(cell', t)
       /\ ( /\ Moved
            /\ \A b \in DOMAIN ticket \ {last'.ticket} : InOnePiece(cell, b)
            /\ Skipped = {}
            /\ ~Straddled )
          => \A t \in DOMAIN ticket' : InOnePiece(cell', t)]_vars

\* C2 as stated: every ticket with cells is one contiguous run of
\* ticket.length rows of one column
C2_Original ==
    \A t \in DOMAIN ticket :
        CountOf(cell, t) > 0 =>
            /\ OneColumn(cell, t)
            /\ InOnePiece(cell, t)
            /\ CountOf(cell, t) = length(DB, t)

\* a forced move has displaced the two other tickets and all three are in
\* one piece
C2_Witness ==
    /\ last.op = "move_to"
    /\ last.force_move
    /\ last.updated = TicketIds
    /\ \A t \in TicketIds : InOnePiece(cell, t) /\ CountOf(cell, t) > 0

----------------------------------------------------------------------------
(* C3: a forced move of a non-fixed ticket A of length 2 to row R, where   *)
(* rows R and R+1 of the column are held by a non-fixed ticket B, leaves A *)
(* on rows R and R+1 and B relocated below, starting at row R+2 (when that *)
(* row is not held by a fixed ticket), with as many cells as before.       *)
FixedBelow == {c.row : c \in {x \in Below : ticket[x.ticket].is_fixed}}

C3_Cascade ==
    [][(Forced /\ MoverLength = 2 /\ ~ticket[last'.ticket].is_fixed) =>
         \A b \in DOMAIN ticket \ {last'.ticket} :
            ( /\ ~ticket[b].is_fixed
              /\ {last'.row, last'.row + 1}
                    \subseteq RowsOf(cell, b, last'.column) )
            => /\ MoverRows = {last'.row, last'.row + 1}
               /\ RowsOf(cell', b, last'.column)
                     \cap {last'.row, last'.row + 1} = {}
               /\ (last'.row + 2) \notin FixedBelow
                     => (last'.row + 2) \in RowsOf(cell', b, last'.column)
               /\ CountOf(cell', b) = CountOf(cell, b)]_vars

\* A sits on rows R, R+1 and the displaced B on rows R+2, R+3
C3_Witness ==
    /\ last.op = "move_to"
    /\ last.force_move
    /\ RowsOf(cell, last.ticket, last.column) = {last.row, last.row + 1}
    /\ \E b \in last.updated \ {last.ticket} :
          RowsOf(cell, b, last.column) = {last.row + 2, last.row + 3}

----------------------------------------------------------------------------
(* C4: in a forced move the rows held by fixed tickets are skipped: the    *)
(* mover takes the first ticket.length rows at or after the target that no *)
(* fixed ticket holds, and every cell of every other fixed ticket keeps    *)
(* its row, column and ticket.                                             *)
C4_FixedBlock ==
    [][Forced =>
         /\ MoverRows = FirstRows(MoverLength, last'.row, FixedBelow)
         /\ \A b \in DOMAIN ticket \ {last'.ticket} :
               ticket[b].is_fixed => PlacesOf(cell', b) = PlacesOf(cell, b)]_vars

\* the fixed B holds rows R, R+1 and A has landed on rows R+2, R+3
C4_Witness ==
    /\ last.op = "move_to"
    /\ last.force_move
    /\ RowsOf(cell, last.ticket, last.column) = {last.row + 2, last.row + 3}
    /\ \E b \in DOMAIN ticket \ {last.ticket} :
          /\ ticket[b].is_fixed
          /\ RowsOf(cell, b, last.column) = {last.row, last.row + 1}

----------------------------------------------------------------------------
(* C5: a non-forced move inserts the mover only into rows that were free,  *)
(* the first ticket.length free rows at or below the target, and leaves    *)
(* the cells of every other ticket as they were.                           *)
OccupiedBelow == {c.row : c \in Below}

C5_NoDisplacement ==
    [][Unforced =>
         /\ MoverRows = FirstRows(MoverLength, last'.row, OccupiedBelow)
         /\ MoverRows \cap OccupiedBelow = {}
         /\ \A b \in DOMAIN ticket \ {last'.ticket} :
               PlacesOf(cell', b) = PlacesOf(cell, b)]_vars

\* a non-forced move aimed at a row that another, non-fixed ticket holds
C5_Witness ==
    /\ last.op = "move_to"
    /\ ~last.force_move
    /\ CountOf(cell, last.ticket) > 0
    /\ \E c \in cell : /\ c.row = last.row
                       /\ c.column = last.column
                       /\ c.ticket # last.ticket
                       /\ ~ticket[c.ticket].is_fixed

----------------------------------------------------------------------------
(* C6: after every move_to the mover owns exactly ticket.length cells and  *)
(* every other ticket, displaced or not, owns as many cells as before.     *)
C6_CellCount ==
    [][Moved =>
         /\ CountOf(cell', last'.ticket) = MoverLength
         /\ \A b \in DOMAIN ticket \ {last'.ticket} :
               CountOf(cell', b) = CountOf(cell, b)]_vars

\* a forced move has displaced a ticket of two cells, which still has two
C6_Witness ==
    /\ last.op = "move_to"
    /\ last.force_move
    /\ \E b \in last.updated \ {last.ticket} : CountOf(cell, b) = 2
    /\ CountOf(cell, last.ticket) = length(DB, last.ticket)

----------------------------------------------------------------------------
(* C7: in a forced move a bumped cell is re-inserted lower in the same     *)
(* column, and the non-fixed cells of the other tickets at or below the    *)
(* target read the same tickets top to bottom as before the move.          *)
RECURSIVE Sorted(_)
Sorted(S) == IF S = {} THEN <<>> ELSE <<Lowest(S)>> \o Sorted(S \ {Lowest(S)})

TicketAt(cs, row, column) ==
    (CHOOSE c \in cs : c.row = row /\ c.column = column).ticket

\* rows of the movable cells of the other tickets at or below the target
MovableRows(cs) ==
    {c.row : c \in {x \in cs : /\ x.ticket # last'.ticket
                               /\ x.column = last'.column
                               /\ x.row >= last'.row
                               /\ ~ticket[x.ticket].is_fixed}}

C7_Fifo ==
    [][Forced =>
         LET before == Sorted(MovableRows(cell))
             after == Sorted(MovableRows(cell'))
         IN /\ Len(after) = Len(before)
            /\ \A i \in 1..Len(before) :
                 /\ TicketAt(cell', after[i], last'.column)
                       = TicketAt(cell, before[i], last'.column)
                 /\ after[i] >= before[i]
                 /\ TicketAt(cell', before[i], last'.column)
                       # TicketAt(cell, before[i], last'.column)
                      => after[i] > before[i]]_vars

\* two stacked tickets were displaced and are still in the same order
C7_Witness ==
    /\ last.op = "move_to"
    /\ last.force_move
    /\ Cardinality(last.updated) = 3
    /\ \E b1, b2 \in last.updated \ {last.ticket} :
          /\ b1 # b2
          /\ Highest(RowsOf(cell, last.ticket, last.column))
                < Lowest(RowsOf(cell, b1, last.column))
          /\ Highest(RowsOf(cell, b1, last.column))
                < Lowest(RowsOf(cell, b2, last.column))

----------------------------------------------------------------------------
(* Vocabulary of the project dates.                                        *)

AllRowsOf(t) == {c.row : c \in {x \in cell : x.ticket = t}}

TicketsOf(p) == {t \in DOMAIN ticket : ticket[t].project = p}
ScheduledOf(p) == {t \in TicketsOf(p) : ticket[t].is_scheduled}
UnscheduledOf(p) == {t \in TicketsOf(p) : ~ticket[t].is_scheduled}

\* the working day shown on a row of the grid
DateAt(row) == add_workdays(first_row, row)

\* the last operation was a move_to that touched a ticket of project p
MovedIn(p) ==
    /\ last.op = "move_to"
    /\ \E t \in last.updated : t \in TicketsOf(p)

----------------------------------------------------------------------------
----------------------------------------------------------------------------
----------------------------------------------------------------------------
(* C10: after a move_to, a refresh or a delete of a ticket of project P    *)
(* the stored dates of P are the dates computed from the current cells.    *)
C10_NeverStale ==
    last.op \in {"move_to", "refresh", "delete"} =>
        \A p \in DOMAIN project :
            /\ AssertCells(DB, p)
            /\ project[p].start_date = start_date(DB, p)
            /\ project[p].end_date = end_date(DB, p)

----------------------------------------------------------------------------
(* C11: the length of every ticket is max(effective duration -             *)
(* advancement, 0), where the effective duration is the ticket's own       *)
(* duration when it is not 0 and otherwise the duration of the project     *)
(* less the durations of the other tickets of the project; the length is 0 *)
(* whenever the status of the project is not drawn.                        *)
RECURSIVE TotalDuration(_)
TotalDuration(ts) ==
    IF ts = {} THEN 0
    ELSE LET t == CHOOSE x \in ts : TRUE
         IN ticket[t].duration + TotalDuration(ts \ {t})

\* the least whole number of days n with n * percentage / 100 >= charge
CeilDays(charge, percentage) ==
    CHOOSE n \in 0..(charge * 100) :
        /\ n * percentage >= charge * 100
        /\ (n - 1) * percentage < charge * 100

EffectiveDuration(t) ==
    IF ticket[t].duration # 0 THEN ticket[t].duration
    ELSE LET p == ticket[t].project
         IN CeilDays(project[p].charge,
                     free_time_percentage(project[p].owner))
              - TotalDuration(TicketsOf(p) \ {t})

C11_Length ==
    \A t \in DOMAIN ticket :
        (ticket[t].duration # 0 \/ ticket[t].project \in DOMAIN project) =>
            length(DB, t) =
                IF /\ ticket[t].project \in DOMAIN project
                   /\ ~project[ticket[t].project].is_drawn
                THEN 0
                ELSE IF EffectiveDuration(t) - ticket[t].advancement > 0
                     THEN EffectiveDuration(t) - ticket[t].advancement
                     ELSE 0

\* the remainder ticket, partly done, is drawn with what is left of it,
\* while its sibling is done beyond its duration
C11_Witness ==
    /\ run.op = "idle"
    /\ \E t \in DOMAIN ticket :
          /\ ticket[t].duration = 0
          /\ ticket[t].advancement > 0
          /\ CountOf(cell, t) = length(DB, t)
          /\ CountOf(cell, t) > 0
    /\ \E t \in DOMAIN ticket :
          /\ ticket[t].duration # 0
          /\ ticket[t].advancement > ticket[t].duration
          /\ CountOf(cell, t) = 0

----------------------------------------------------------------------------
(* C12: a project whose duration is ceil(charge / free_time_percentage *   *)
(* 100) (charge 4 at 50% gives 8) and whose single ticket has duration 0   *)
(* has a ticket of length L = duration - advancement; placed at today's    *)
(* row in the scheduled lane, not forced, on an empty column, the ticket   *)
(* gets L cells in one run from today's row, is_top_cell true on the first *)
(* only, is_bottom_cell true on the last only, is_scheduled true, and the  *)
(* project's end_date is L - 1 working days after the day of today's row:  *)
(* today, or the Monday that follows when today is in a weekend.           *)

\* the n-th working day after a day
PlusWorkdays(day, n) ==
    IF n <= 0 THEN day
    ELSE CHOOSE x \in day..(day + 2 * n + 7) :
            /\ x % 7 \notin {5, 6}
            /\ Cardinality({y \in (day + 1)..x : y % 7 \notin {5, 6}}) = n

\* today, or the Monday after the weekend today is in
TodayOrMonday == CHOOSE x \in today..(today + 2) :
                    /\ x % 7 \notin {5, 6}
                    /\ \A y \in today..(x - 1) : y % 7 \in {5, 6}

PlacedToday ==
    /\ Unforced
    /\ last'.row = get_today_row
    /\ last'.column = 0
    /\ TicketsOf(ticket[last'.ticket].project) = {last'.ticket}
    /\ ticket[last'.ticket].duration = 0
    /\ Below = {}

ProjectLength ==
    CeilDays(project[ticket[last'.ticket].project].charge,
             free_time_percentage(project[ticket[last'.ticket].project].owner))
        - ticket[last'.ticket].advancement

PlacedAsOneRun ==
    LET t == last'.ticket
        first == get_today_row
        final == get_today_row + ProjectLength - 1
    IN /\ CeilDays(4, 50) = 8
       /\ MoverRows = first..final
       /\ CountOf(cell', t) = ProjectLength
       /\ \A c \in cell' : /\ c.is_top_cell = (c.row = first)
                           /\ c.is_bottom_cell = (c.row = final)
       /\ ticket'[t].is_scheduled = TRUE

C12_EndToEnd ==
    [][(PlacedToday /\ ProjectLength > 0) =>
         /\ PlacedAsOneRun
         /\ project'[ticket[last'.ticket].project].end_date
               = PlusWorkdays(TodayOrMonday, ProjectLength - 1)]_vars

\* C12 as stated: the end_date counted in working days from today
C12_Original ==
    [][(PlacedToday /\ ProjectLength > 0) =>
         /\ PlacedAsOneRun
         /\ project'[ticket[last'.ticket].project].end_date
               = PlusWorkdays(today, ProjectLength - 1)]_vars

\* a ticket of four cells (charge 2 at 50%) placed at today's row on a
\* Saturday: the run starts on Monday and ends on Thursday
C12_Witness ==
    /\ last.op = "move_to"
    /\ ~last.force_move
    /\ last.row = get_today_row
    /\ last.column = 0
    /\ today % 7 = 5
    /\ project[1].owner = "half"
    /\ AllRowsOf(1) = get_today_row..(get_today_row + 3)
    /\ ticket[1].is_scheduled = TRUE
    /\ project[1].start_date = today + 2
    /\ project[1].end_date = today + 5

----------------------------------------------------------------------------
(* Vocabulary of the rebase.                                               *)

\* two cells on the same row of the same column
Collide(cs) ==
    \E a, b \in cs : a # b /\ a.row = b.row /\ a.column = b.column

\* the signed number of working days from one working day to another
WorkdaysBetween(a, b) ==
    IF a <= b THEN Cardinality({d \in a..(b - 1) : d % 7 \notin {5, 6}})
    ELSE 0 - Cardinality({d \in b..(a - 1) : d % 7 \notin {5, 6}})

Shifted(cs, delta) == {[c EXCEPT !.row = c.row - delta] : c \in cs}

\* the step just taken belongs to a rebase; last'.cells and last'.first_row
\* are the cells and the marker the rebase started from
CellMoved == last'.op = "move_cell"
Rebased == last'.op = "rebase"

\* delta of the rebase under way: from the stored date to the date of row 0
Delta == WorkdaysBetween(last'.first_row, days_displayed'[1])

\* the cells the loop has not reached yet
Unmoved == {run.cells_ordered[i] : i \in DOMAIN run.cells_ordered}

----------------------------------------------------------------------------
(* C13: a rebase with a nonzero delta moves every cell from its row r to   *)
(* row r - delta, once: each iteration takes a cell not moved yet, the one *)
(* of lowest row when delta > 0 and of highest row when delta < 0, and     *)
(* after no iteration do two cells share a row and a column.               *)
C13_Shift ==
    [][/\ (last'.op \in {"open", "move_cell", "rebase"}) =>
            /\ ~Collide(cell')
            /\ Cardinality(cell') = Cardinality(last'.cells)
       /\ CellMoved =>
            /\ Delta # 0
            /\ last'.cell \in Unmoved \cap cell
            /\ cell' = (cell \ {last'.cell}) \cup Shifted({last'.cell}, Delta)
            /\ Delta > 0 => \A x \in Unmoved : last'.cell.row <= x.row
            /\ Delta < 0 => \A x \in Unmoved : last'.cell.row >= x.row
       /\ Rebased =>
            /\ cell' = Shifted(last'.cells, Delta)
            /\ Unmoved = {}]_vars

\* the board opened three working days later: the three cells are three
\* rows higher
C13_Witness ==
    /\ last.op = "rebase"
    /\ WorkdaysBetween(last.first_row, first_row) = 3
    /\ Cardinality(cell) = 3
    /\ cell = Shifted(last.cells, 3)
    /\ \E a, b \in cell : a.column = b.column /\ a.row = b.row + 1

----------------------------------------------------------------------------
(* C14: after a rebase every cell is on the row of the working day it was  *)
(* on before: the stored first-row date plus the old row in working days   *)
(* is the new first-row date plus the new row in working days, and is the  *)
(* day the grid shows on the new row, whether the board is opened later or *)
(* with the clock set back.                                                *)
C14_SameDates ==
    [][Rebased =>
         /\ Cardinality(cell') = Cardinality(last'.cells)
         /\ \A c \in last'.cells :
               \E x \in cell' :
                  /\ x.column = c.column
                  /\ x.ticket = c.ticket
                  /\ PlusWorkdays(first_row', x.row)
                        = PlusWorkdays(last'.first_row, c.row)
                  /\ (x.row + 1) \in DOMAIN days_displayed' =>
                        days_displayed'[x.row + 1]
                            = PlusWorkdays(last'.first_row, c.row)]_vars

\* the clock was set back: the first row is an earlier day and the cells
\* are lower on the grid
C14_Witness ==
    /\ last.op = "rebase"
    /\ first_row < last.first_row
    /\ Cardinality(cell) = 3
    /\ \A c \in last.cells : \E x \in cell :
          x.column = c.column /\ x.ticket = c.ticket /\ x.row > c.row

----------------------------------------------------------------------------
(* C15: a rebase run again on the same day, right after a rebase, has a    *)
(* delta of 0: it moves no cell and leaves every row and the FirstRow      *)
(* marker as they were.                                                    *)
C15_Idempotent ==
    [][(last'.op \in {"open", "move_cell", "rebase"} /\ last'.again) =>
         /\ ~CellMoved
         /\ Delta = 0
         /\ cell' = last'.cells
         /\ first_row' = last'.first_row
         /\ run'.op = "move_all_cells_up" => run'.cells_ordered = <<>>]_vars

\* the second run of a day on which the first run widened the window
C15_Witness ==
    /\ last.op = "rebase"
    /\ last.again
    /\ first_row < today - DaysInThePast
    /\ first_row # Today - DaysInThePast
    /\ cell # {}

----------------------------------------------------------------------------
(* C16: rows that were all >= 0 before a rebase are all >= 0 after it;     *)
(* when the day of the first occupied cell is earlier than today minus     *)
(* days_in_the_past, that day is the new first row and the lowest cell is  *)
(* on row 0; otherwise the first row is the day of the parameters (the     *)
(* Monday that follows when that day is in a weekend).                     *)
OldFirstCellDate ==
    PlusWorkdays(last'.first_row, Lowest({c.row : c \in last'.cells}))

Nominal == today' - DaysInThePast

C16_Widening ==
    [][Rebased =>
         /\ (\A c \in last'.cells : c.row >= 0) => \A c \in cell' : c.row >= 0
         /\ IF OldFirstCellDate < Nominal
            THEN /\ first_row' = OldFirstCellDate
                 /\ Lowest({c.row : c \in cell'}) = 0
            ELSE /\ first_row' \in Nominal..(Nominal + 2)
                 /\ first_row' % 7 \notin {5, 6}
                 /\ \A d \in Nominal..(first_row' - 1) : d % 7 \in {5, 6}]_vars

\* the window was widened for cells that were not on row 0
C16_Witness ==
    /\ last.op = "rebase"
    /\ ~last.again
    /\ first_row < today - DaysInThePast
    /\ Lowest({c.row : c \in last.cells}) > 0
    /\ Lowest({c.row : c \in cell}) = 0

----------------------------------------------------------------------------
(* C17: when a move_to or a rebase stops on a failure, the store is the    *)
(* store from before the operation or the store the whole operation would  *)
(* have left: the cells shifted go with the marker updated, and a move     *)
(* that raised has written nothing.                                        *)
C17_Atomic ==
    /\ last.op = "interrupted" =>
          \/ cell = last.cells /\ first_row = last.first_row
          \/ /\ cell = Shifted(last.cells, last.delta)
             /\ first_row = last.first_date_new
    /\ last.op = "move_to_failed" =>
          /\ cell = last.before.cell
          /\ ticket = last.before.ticket
          /\ project = last.before.project

----------------------------------------------------------------------------
(* C18: after any move_to, refresh, Ticket.delete or Project.delete every  *)
(* cell of the store belongs to a ticket of the store; after               *)
(* Ticket.delete(t) the ticket t is gone and no cell refers to it; after   *)
(* Project.delete(p) the tickets of p are gone and no cell refers to them. *)
C18_NoOrphan ==
    [][/\ \A c \in cell' : c.ticket \in DOMAIN ticket'
       /\ last'.op = "delete" =>
            /\ last'.ticket \notin DOMAIN ticket'
            /\ \A c \in cell' : c.ticket # last'.ticket
       /\ last'.op = "delete_project" =>
            /\ \A t \in TicketsOf(last'.project) :
                  /\ t \notin DOMAIN ticket'
                  /\ \A c \in cell' : c.ticket # t
            /\ last'.project \notin DOMAIN project']_vars

\* a project of two tickets and three cells was deleted
C18_Witness ==
    /\ last.op = "delete_project"
    /\ Cardinality(last.tickets) = 2
    /\ Cardinality(last.cells) = 3
    /\ cell = {}
    /\ DOMAIN ticket = {}

----------------------------------------------------------------------------
(* C19: a refresh of ticket t leaves every cell of every other ticket that *)
(* is still in the store on its row and column; in the delete branch (the  *)
(* status of t's project is not drawn) the other tickets of that project   *)
(* are deleted with their cells, and only they.                            *)
Refreshed == last'.op = "refresh"

DeleteBranch ==
    /\ last'.ticket \in DOMAIN ticket
    /\ ticket[last'.ticket].project \in DOMAIN project
    /\ ~project[ticket[last'.ticket].project].is_drawn

C19_RefreshFrame ==
    [][Refreshed =>
         \A b \in DOMAIN ticket \ {last'.ticket} :
            IF b \in DOMAIN ticket'
            THEN PlacesOf(cell', b) = PlacesOf(cell, b)
            ELSE /\ DeleteBranch
                 /\ ticket[b].project = ticket[last'.ticket].project
                 /\ PlacesOf(cell', b) = {}]_vars

\* C19 as stated: the cells of every other ticket are where they were
C19_Original ==
    [][Refreshed =>
         \A b \in DOMAIN ticket \ {last'.ticket} :
            PlacesOf(cell', b) = PlacesOf(cell, b)]_vars

\* a refreshed ticket grew around the cells of another ticket, which are
\* still in the middle of it
C19_Witness ==
    /\ last.op = "refresh"
    /\ last.ticket \in DOMAIN ticket
    /\ CountOf(cell, last.ticket) = 3
    /\ ~IsRun(RowsOf(cell, last.ticket, 0))
    /\ \E b \in DOMAIN ticket \ {last.ticket} :
          \E r \in RowsOf(cell, b, 0) :
             /\ r > Lowest(RowsOf(cell, last.ticket, 0))
             /\ r < Highest(RowsOf(cell, last.ticket, 0))

----------------------------------------------------------------------------
(* C20: the same move_to performed a second time leaves every cell where   *)
(* the first one put it; a move_to of a ticket onto its own first cell     *)
(* leaves the layout as it was when the cells of the ticket are one run of *)
(* its length.                                                             *)
Layout(cs) == {[row |-> c.row, column |-> c.column, ticket |-> c.ticket] : c \in cs}

DBAfter == [cell |-> cell', ticket |-> ticket', project |-> project',
            failed |-> FALSE, asserted |-> FALSE]

\* the call of this step, made once more on the store it left
Again(order) ==
    move_to(DBAfter, last'.ticket, last'.row, last'.column,
            last'.force_move, order)

SameTwice ==
    \A order \in Orders(tickets_to_update(DBAfter, last'.ticket, last'.row,
                                          last'.column, last'.force_move)) :
        /\ ~Again(order).failed
        /\ Layout(Again(order).cell) = Layout(cell')

OntoItself ==
    /\ get_cells(DB, last'.ticket) # {}
    /\ last'.row = MinRow(get_cells(DB, last'.ticket))
    /\ \A c \in get_cells(DB, last'.ticket) : c.column = last'.column

OneRun(t) ==
    /\ IsRun(RowsOf(cell, t, last'.column))
    /\ CountOf(cell, t) = length(DB, t)

C20_Idempotent ==
    [][Moved =>
         /\ SameTwice
         /\ OntoItself /\ OneRun(last'.ticket) =>
               Layout(cell') = Layout(cell)]_vars

\* C20 as stated: any move onto the ticket's own first cell keeps the layout
C20_Original ==
    [][Moved =>
         /\ SameTwice
         /\ OntoItself => Layout(cell') = Layout(cell)]_vars

\* a forced move that pushed another ticket down; the ticket now starts on
\* the target, so that the same call is also a move onto itself
C20_Witness ==
    /\ last.op = "move_to"
    /\ last.force_move
    /\ last.updated # {last.ticket}
    /\ get_cells(DB, last.ticket) # {}
    /\ last.row = MinRow(get_cells(DB, last.ticket))
    /\ CountOf(cell, last.ticket) > 1
    /\ IsRun(RowsOf(cell, last.ticket, last.column))
    /\ \E b \in DOMAIN ticket \ {last.ticket} :
          Highest(RowsOf(cell, last.ticket, last.column)) + 1
              \in RowsOf(cell, b, last.column)

----------------------------------------------------------------------------
(* Project keys.  ProjectModel.id is a string, the initials of the owner   *)
(* followed by a number; strings are sequences of characters, compared as  *)
(* the database compares them.                                             *)

MaxProjects == 3         \* largest number of projects of the key store

\* the characters of the model, in the order of their codes
Chars == <<"0", "1", "2", "3", "4", "5", "6", "7", "8", "9",
           "D", "J", "M", "P", "a", "i", "o">>

Code(c) == CHOOSE i \in 1..Len(Chars) : Chars[i] = c

IsDigit(c) == Code(c) <= 10

\* the team: "Jo Pi", "Jo Pi Ma" and "Jo Do"
TeamNames ==
    { <<"J", "o", " ", "P", "i">>,
      <<"J", "o", " ", "P", "i", " ", "M", "a">>,
      <<"J", "o", " ", "D", "o">> }

\* str.split(" ")
RECURSIVE split(_)
split(str) ==
    IF \A i \in DOMAIN str : str[i] # " " THEN <<str>>
    ELSE LET i == CHOOSE j \in DOMAIN str :
                     str[j] = " " /\ \A k \in 1..(j - 1) : str[k] # " "
         IN <<SubSeq(str, 1, i - 1)>> \o split(SubSeq(str, i + 1, Len(str)))

\* Member.initials
initials(name) == [i \in DOMAIN split(name) |-> split(name)[i][1]]

\* the LIKE 'prefix%' of ProjectModel.id.startswith
startswith(str, prefix) ==
    /\ Len(str) >= Len(prefix)
    /\ SubSeq(str, 1, Len(prefix)) = prefix

\* the order of two different strings in ORDER BY id
StrLess(a, b) ==
    \/ Len(a) < Len(b) /\ SubSeq(b, 1, Len(a)) = a
    \/ \E i \in 1..Len(a) :
          /\ i <= Len(b)
          /\ SubSeq(a, 1, i - 1) = SubSeq(b, 1, i - 1)
          /\ Code(a[i]) < Code(b[i])

\* the outcome of int(str) when str is not a number
ValueError == -1

\* the key of a call of get_next_available_key that raised
NoKey == <<>>

\* int(str)
RECURSIVE int(_)
int(str) ==
    IF str = <<>> \/ \E i \in DOMAIN str : ~IsDigit(str[i]) THEN ValueError
    ELSE IF Len(str) = 1 THEN Code(str[1]) - 1
    ELSE 10 * int(SubSeq(str, 1, Len(str) - 1)) + Code(str[Len(str)]) - 1

RECURSIVE decimal(_)
decimal(n) ==
    IF n < 10 THEN <<Chars[n + 1]>>
    ELSE decimal(n \div 10) \o <<Chars[(n % 10) + 1]>>

RECURSIVE zero_pad(_, _)
zero_pad(str, width) ==
    IF Len(str) >= width THEN str ELSE zero_pad(<<"0">> \o str, width)

\* f"{key_number:05d}"
format_05d(n) == zero_pad(decimal(n), 5)

\* Member._get_last_project_key
get_last_project_key(keys, name) ==
    LET found == {k \in keys : startswith(k, initials(name))}
    IN IF found = {} THEN initials(name) \o format_05d(0)
       ELSE CHOOSE k \in found : \A o \in found \ {k} : StrLess(o, k)

\* Member.get_next_available_key
get_next_available_key(keys, name) ==
    LET last_key == get_last_project_key(keys, name)
        key_number == int(SubSeq(last_key, Len(initials(name)) + 1,
                                 Len(last_key)))
    IN IF key_number = ValueError THEN NoKey
       ELSE initials(name) \o format_05d(key_number + 1)

\* the numbers of the keys an imported file brings
ImportedNumbers == {1, 41, 99999}

KeyProject(name) == [owner |-> name]

InitKey ==
    /\ FirstSession
    /\ cell = {}
    /\ ticket = <<>>
    /\ project = <<>>
    /\ last = [op |-> "init"]

\* the importer's result dialog saves a project of the file
ImportProject(name, n) ==
    LET key == initials(name) \o format_05d(n)
    IN /\ key \notin DOMAIN project
       /\ Cardinality(DOMAIN project) < MaxProjects
       /\ project' = [k \in DOMAIN project \cup {key} |->
                        IF k = key THEN KeyProject(name) ELSE project[k]]
       /\ last' = [op |-> "import", key |-> key]
    /\ UNCHANGED <<cell, ticket, grid>>

\* the project dialog opened on an empty cell of a lane of the member, then
\* confirmed: the key is drawn when the dialog opens and the project saved
\* under it
CreateProject(name) ==
    /\ Cardinality(DOMAIN project) < MaxProjects
    /\ LET key == get_next_available_key(DOMAIN project, name)
       IN /\ project' = IF key = NoKey THEN project
                        ELSE [k \in DOMAIN project \cup {key} |->
                                IF k = key THEN KeyProject(name)
                                ELSE project[k]]
          /\ last' = [op |-> "create_project", owner |-> name, key |-> key]
    /\ UNCHANGED <<cell, ticket, grid>>

NextKey ==
    \/ \E name \in TeamNames, n \in ImportedNumbers : ImportProject(name, n)
    \/ \E name \in TeamNames : CreateProject(name)

SpecKey == InitKey /\ [][NextKey]_vars

----------------------------------------------------------------------------
(* C21: the key drawn for a new project of a member is the initials of the *)
(* member followed by the number, on 5 digits, one greater than the        *)
(* highest number among the keys of the store that start with these        *)
(* initials, and 00001 when there is none.                                 *)
Created == last'.op = "create_project"

KeysOf(name) == {k \in DOMAIN project : startswith(k, initials(name))}

\* the number that follows the initials, 0 when what follows is no number
SequenceNumber(k, name) ==
    LET rest == SubSeq(k, Len(initials(name)) + 1, Len(k))
    IN IF int(rest) = ValueError THEN 0 ELSE int(rest)

HighestNumber(name) ==
    IF KeysOf(name) = {} THEN 0
    ELSE SetMax({SequenceNumber(k, name) : k \in KeysOf(name)})

C21_NextKey ==
    [][Created =>
         /\ last'.key # NoKey
         /\ last'.key = initials(last'.owner)
                          \o format_05d(HighestNumber(last'.owner) + 1)
         /\ Len(last'.key) = Len(initials(last'.owner)) + 5]_vars

----------------------------------------------------------------------------
(* Bootstrap.  Ticket.draw_all_tickets when the board is opened, on a      *)
(* store whose projects come from the importer.                            *)

BootProjects == {1, 2}

MaxTicketId == 3         \* largest ticket id the bootstrap may give

\* the id an AutoField gives to the next row
next_ticket_id(db) ==
    IF DOMAIN db.ticket = {} THEN 1 ELSE SetMax(DOMAIN db.ticket) + 1

\* ProjectModel.get_projects_new, in the order of the query
get_projects_new(db) ==
    Ascending({p \in DOMAIN db.project :
                 /\ db.project[p].charge # 0
                 /\ db.project[p].is_drawn
                 /\ tickets_of(db, p) = {}})

\* no ticket created for the new projects
create_ticket_new_projects_none(db, ps) == db

\* TicketModel.create_ticket_new_projects over the list of new projects
RECURSIVE create_ticket_new_projects(_, _)
create_ticket_new_projects(db, ps) ==
    IF ps = <<>> THEN db
    ELSE create_ticket_new_projects(
             [db EXCEPT !.ticket =
                 [t \in DOMAIN db.ticket \cup {next_ticket_id(db)} |->
                    IF t \in DOMAIN db.ticket THEN db.ticket[t]
                    ELSE NewTicket(Head(ps), FALSE, 0)]],
             Tail(ps))

\* TicketModel.get_tickets_new
get_tickets_new(db) ==
    Ascending({t \in DOMAIN db.ticket : get_cells(db, t) = {}})

\* the loop of Ticket._create_new_tickets
RECURSIVE place_new_tickets(_, _)
place_new_tickets(db, ts) ==
    IF ts = <<>> \/ db.failed THEN db
    ELSE LET t == Head(ts)
             column == get_column_owner_backlog(t)
         IN place_new_tickets(
                move_to(db, t, get_today_row, column, FALSE,
                        SomeOrder(tickets_to_update(db, t, get_today_row,
                                                    column, FALSE))),
                Tail(ts))

create_new_tickets(db) ==
    LET created == create_ticket_new_projects(db, get_projects_new(db))
    IN place_new_tickets(created, get_tickets_new(created))

\* PlanningGrid.refresh_grid over the tickets the query returned
RECURSIVE refresh_grid(_, _)
refresh_grid(db, ts) ==
    IF ts = <<>> \/ db.failed THEN db
    ELSE refresh_grid(refresh(db, Head(ts)), Tail(ts))

ImportedProject(is_drawn, charge) ==
    [is_drawn |-> is_drawn, charge |-> charge, owner |-> "full",
     start_date |-> NoDate, end_date |-> NoDate]

\* a ticket without project waits in the store; the projects are imported
InitBoot ==
    /\ FirstSession
    /\ cell = {}
    /\ ticket = <<>>
    /\ project = <<>>
    /\ last = [op |-> "init"]

\* Ticket.draw_all_tickets
DrawAllTickets ==
    /\ LET db == create_new_tickets(DB)
       IN /\ ~db.failed
          /\ InGrid(db)
          /\ DOMAIN db.ticket \subseteq 1..MaxTicketId
          /\ Store(db)
    /\ last' = [op |-> "draw_all_tickets",
                new |-> {t \in DOMAIN ticket' : get_cells(DB, t) = {}}]
    /\ UNCHANGED grid

\* the importer's result dialog confirmed: a project of the file saved, or
\* its status and charge updated, and the tickets of the project refreshed
ImportAccepted(p, is_drawn, charge) ==
    /\ LET saved == [DB EXCEPT !.project =
                       [q \in DOMAIN project \cup {p} |->
                          IF q = p
                          THEN IF p \in DOMAIN project
                               THEN [project[p] EXCEPT !.is_drawn = is_drawn,
                                                       !.charge = charge]
                               ELSE ImportedProject(is_drawn, charge)
                          ELSE project[q]]]
           db == refresh_grid(saved, Ascending(tickets_of(saved, p)))
       IN /\ ~db.failed
          /\ InGrid(db)
          /\ Store(db)
    /\ last' = [op |-> "import", project |-> p]
    /\ UNCHANGED grid

NextBoot ==
    \/ DrawAllTickets
    \/ \E p \in BootProjects, is_drawn \in BOOLEAN, charge \in {0, MaxDuration} :
          ImportAccepted(p, is_drawn, charge)
    \/ \E t \in DOMAIN ticket, row \in Rows :
          MoveTo(t, row, get_column_owner_backlog(t), FALSE)

SpecBoot == InitBoot /\ [][NextBoot]_vars

----------------------------------------------------------------------------
(* C22: after draw_all_tickets every project with a drawn status and a     *)
(* charge other than 0 has a ticket, every ticket that had no cell has its *)
(* length of cells in the backlog lane of its owner on the first free rows *)
(* from today's row on, and every cell that was there is as it was.        *)
Booted == last'.op = "draw_all_tickets"

\* the rows of the backlog lane taken in the store before the step
TakenBefore(column) == {c.row : c \in {x \in cell : x.column = column}}

TakenAfter(column) == {c.row : c \in {x \in cell' : x.column = column}}

C22_Bootstrap ==
    [][Booted =>
         /\ \A p \in DOMAIN project' :
               project'[p].is_drawn /\ project'[p].charge # 0 =>
                  \E t \in DOMAIN ticket' : ticket'[t].project = p
         /\ \A t \in last'.new :
               LET column == get_column_owner_backlog(t)
                   rows == RowsOf(cell', t, column)
               IN /\ CountOf(cell', t) = length(DBAfter, t)
                  /\ Cardinality(rows) = CountOf(cell', t)
                  /\ rows \cap TakenBefore(column) = {}
                  /\ \A r \in rows :
                        /\ r >= get_today_row
                        /\ get_today_row..r \subseteq TakenAfter(column)
         /\ cell \subseteq cell']_vars

\* a new project got its ticket, which was placed below a cell that was
\* already in the backlog lane on today's row
C22_Witness ==
    /\ last.op = "draw_all_tickets"
    /\ \E t \in last.new :
          /\ ticket[t].project # NoProject
          /\ CountOf(cell, t) = MaxDuration
          /\ get_today_row \notin RowsOf(cell, t, get_column_owner_backlog(t))
    /\ \E c \in cell : c.ticket \notin last.new /\ c.row = get_today_row

----------------------------------------------------------------------------
(* C23: a refresh of a ticket whose project has a status that is not drawn *)
(* removes the ticket and its cells; otherwise, when the length of the     *)
(* ticket is 0, the ticket stays, without cell and not scheduled;          *)
(* otherwise the ticket is placed from its first cell on, or from today's  *)
(* row of the backlog lane of its owner when it has no cell.               *)
RefreshedTicket == last'.op = "refresh" /\ last'.ticket \in DOMAIN ticket

\* where the refresh starts to place ticket t
StartOf(t) ==
    IF get_cells(DB, t) = {}
    THEN [row |-> get_today_row, column |-> get_column_owner_backlog(t)]
    ELSE [row |-> MinRow(get_cells(DB, t)),
          column |-> (CHOOSE c \in get_cells(DB, t) :
                         c.row = MinRow(get_cells(DB, t))).column]

FreeFor(t, row, column) ==
    ~\E c \in cell : c.row = row /\ c.column = column /\ c.ticket # t

\* the first n rows from row on that no other ticket holds in the column
FirstFreeRows(t, row, column, n) ==
    {r \in row..(row + rowCount + n) :
        /\ FreeFor(t, r, column)
        /\ Cardinality({q \in row..r : FreeFor(t, q, column)}) <= n}

C23_RefreshCases ==
    [][RefreshedTicket =>
         LET t == last'.ticket
         IN IF DeleteBranch
            THEN /\ t \notin DOMAIN ticket'
                 /\ PlacesOf(cell', t) = {}
            ELSE IF length(DB, t) = 0
            THEN /\ t \in DOMAIN ticket'
                 /\ PlacesOf(cell', t) = {}
                 /\ ticket'[t].is_scheduled = FALSE
            ELSE /\ t \in DOMAIN ticket'
                 /\ PlacesOf(cell', t) =
                      {<<r, StartOf(t).column, t>> :
                          r \in FirstFreeRows(t, StartOf(t).row,
                                              StartOf(t).column,
                                              length(DB, t))}]_vars

\* the three cases have happened: a ticket removed with its undrawn project,
\* a ticket of length 0 kept without cell, a ticket without cell sent to the
\* backlog lane
C23_WitnessDeleted ==
    /\ last.op = "refresh"
    /\ last.project # NoProject
    /\ last.ticket \notin DOMAIN ticket
    /\ ~project[last.project].is_drawn

C23_Witness ==
    /\ last.op = "refresh"
    /\ last.ticket \in DOMAIN ticket
    /\ CountOf(cell, last.ticket) > 1
    /\ \A c \in get_cells(DB, last.ticket) :
          c.column = get_column_owner_backlog(last.ticket)
    /\ \E b \in DOMAIN ticket \ {last.ticket} :
          /\ ticket[b].project = ticket[last.ticket].project
          /\ length(DB, b) = 0
          /\ get_cells(DB, b) = {}
          /\ ticket[b].is_scheduled = FALSE

----------------------------------------------------------------------------
(* The board over several sessions: the grid is rebased when the board is  *)
(* opened, and tickets are moved, refreshed and deleted in between.        *)

\* the days on which the board is opened: the first one and three days later
BoardDays == {Today, Today + 3}

NextBoard ==
    \/ \E day \in BoardDays : OpenBoard(day)
    \/ MoveCellUp
    \/ UpdateFirstRow
    \/ \E t \in DOMAIN ticket, row \in Rows, force_move \in BOOLEAN :
          MoveTo(t, row, 0, force_move)
    \/ \E t \in DOMAIN ticket : run.op = "idle" /\ Refresh(t)
    \/ \E t \in DOMAIN ticket : run.op = "idle" /\ Delete(t)

SpecBoard == InitRebase /\ [][NextBoard]_vars

----------------------------------------------------------------------------
(* C24: between two operations, a cell is marked as the top cell of its    *)
(* ticket exactly when the ticket has no cell on the row above in the      *)
(* column, and as its bottom cell exactly when it has none on the row      *)
(* below.                                                                  *)
SameTicketAt(c, row) ==
    \E a \in cell : a.row = row /\ a.column = c.column /\ a.ticket = c.ticket

C24_BorderFlags ==
    run.op = "idle" =>
        \A c \in cell :
            /\ c.is_top_cell = ~SameTicketAt(c, c.row - 1)
            /\ c.is_bottom_cell = ~SameTicketAt(c, c.row + 1)

\* a ticket split by the forced move of another one, on a later session
C24_Witness ==
    /\ run.op = "idle"
    /\ today # Today
    /\ last.op = "move_to"
    /\ \E t \in DOMAIN ticket \ {last.ticket} :
          /\ t \in last.updated
          /\ CountOf(cell, t) > 1
          /\ ~IsRun(RowsOf(cell, t, 0))
          /\ \A c \in get_cells(DB, t) : c.is_top_cell /\ c.is_bottom_cell

----------------------------------------------------------------------------
(* C25: after a move_to, the mover and every displaced ticket are          *)
(* scheduled exactly when they have a cell, their cells are not in a       *)
(* backlog lane and their length is not 0; a mover of length 0 ends        *)
(* without cell and not scheduled, a mover sent to a backlog lane ends not *)
(* scheduled.                                                              *)
InBacklog(cs, t) == \E c \in cs : c.ticket = t /\ IsBacklog(c.column)

C25_Scheduled ==
    [][Moved =>
         /\ \A t \in last'.updated :
               ticket'[t].is_scheduled =
                  (/\ CountOf(cell', t) >= 1
                   /\ ~InBacklog(cell', t)
                   /\ length(DBAfter, t) # 0)
         /\ length(DBAfter, last'.ticket) = 0 =>
               /\ CountOf(cell', last'.ticket) = 0
               /\ ticket'[last'.ticket].is_scheduled = FALSE
         /\ IsBacklog(last'.column) =>
               ticket'[last'.ticket].is_scheduled = FALSE]_vars

\* a ticket moved to the backlog lane, where it has cells and is not
\* scheduled, while the other ticket is scheduled
C25_Witness ==
    /\ last.op = "move_to"
    /\ IsBacklog(last.column)
    /\ CountOf(cell, last.ticket) >= 1
    /\ ticket[last.ticket].is_scheduled = FALSE
    /\ \E t \in DOMAIN ticket \ {last.ticket} :
          /\ ticket[t].is_scheduled = TRUE
          /\ CountOf(cell, t) >= 1

\* a ticket of length 0 moved: no cell, not scheduled
C25_WitnessEmpty ==
    /\ last.op = "move_to"
    /\ ~IsBacklog(last.column)
    /\ length(DB, last.ticket) = 0
    /\ CountOf(cell, last.ticket) = 0
    /\ ticket[last.ticket].is_scheduled = FALSE

----------------------------------------------------------------------------
(* C26: between two operations every scheduled ticket has a cell, and no   *)
(* move_to, refresh or delete that can be started, whatever the order in   *)
(* which the touched tickets are updated, fails on the assertion that a    *)
(* scheduled ticket has a first and a last cell.                           *)
ScheduledHaveCells ==
    \A t \in DOMAIN ticket : ticket[t].is_scheduled = TRUE => get_cells(DB, t) # {}

NoMoveAsserts ==
    \A t \in DOMAIN ticket, row \in Rows, column \in Columns,
       force_move \in BOOLEAN :
        \A order \in Orders(tickets_to_update(DB, t, row, column, force_move)) :
            ~move_to(DB, t, row, column, force_move, order).asserted

NoRefreshAsserts ==
    \A t \in DOMAIN ticket :
        /\ ~refresh(DB, t).asserted
        /\ ~delete(DB, t).asserted

C26_ScheduledHaveCells ==
    run.op = "idle" =>
        /\ ScheduledHaveCells
        /\ NoMoveAsserts
        /\ NoRefreshAsserts

\* a scheduled ticket was displaced by the forced move of another ticket of
\* its project, so that the dates of the project were computed while one of
\* the two was still to be updated
C26_Witness ==
    /\ last.op = "move_to"
    /\ last.force_move
    /\ Cardinality(last.updated) = 2
    /\ \A t \in last.updated :
          /\ ticket[t].is_scheduled = TRUE
          /\ ticket[t].project = ticket[last.ticket].project
          /\ ticket[t].project # NoProject

----------------------------------------------------------------------------
(* The loop of TicketMover.move_to taken one row at a time: run holds the  *)
(* mover's working state and the row the loop has reached.                 *)

\* current_row left where it is
next_row_same(current_row) == current_row

\* current_row += 1
next_row(current_row) == current_row + 1

\* Ticket.move_to up to the loop: _erase and _init_values
StartWalk(t, row, column, force_move) ==
    /\ run.op = "idle"
    /\ t \in DOMAIN ticket
    /\ InGrid(DB)
    /\ LET db == erase(DB, t)
       IN /\ cell' = db.cell
          /\ run' = [op |-> "walk", ticket |-> t, row |-> row,
                     column |-> column, force_move |-> force_move,
                     current_row |-> row,
                     w |-> [cell |-> db.cell,
                            queue |-> [i \in 1..length(db, t) |-> t],
                            create |-> {},
                            update |-> {t}],
                     taken |-> rows_taken(db, row, column),
                     fixed |-> rows_fixed(db, row, column, force_move),
                     before |-> cell]
    /\ last' = [op |-> "erase", ticket |-> t]
    /\ UNCHANGED <<ticket, project, days_displayed, today, first_row>>

\* one iteration of "while self._ticket_cells_to_insert"
WalkStep ==
    /\ run.op = "walk"
    /\ run.w.queue # <<>>
    /\ LET r == skip_fixed(run.current_row, run.fixed)
           w == insert_ticket_cell(run.w, r, run.column, run.taken)
       IN /\ cell' = w.cell
          /\ run' = [run EXCEPT !.w = w, !.current_row = next_row(r)]
    /\ last' = [op |-> "insert_ticket_cell", ticket |-> Head(run.w.queue)]
    /\ UNCHANGED <<ticket, project, days_displayed, today, first_row>>

\* the queue is empty: the loop is left
EndWalk ==
    /\ run.op = "walk"
    /\ run.w.queue = <<>>
    /\ run' = [run EXCEPT !.op = "draw"]
    /\ last' = [op |-> "walked", ticket |-> run.ticket]
    /\ UNCHANGED <<cell, ticket, project, days_displayed, today, first_row>>

\* _create_new_cells and _draw_tickets
FinishWalk ==
    /\ run.op = "draw"
    /\ \E order \in Orders(run.w.update) :
         LET db == draw_tickets([DB EXCEPT !.cell = create_new_cells(run.w)],
                                order)
         IN /\ Store(db)
            /\ last' = [op |-> IF db.failed THEN "move_to_failed"
                               ELSE "move_to",
                        ticket |-> run.ticket, row |-> run.row,
                        column |-> run.column,
                        force_move |-> run.force_move,
                        updated |-> run.w.update]
    /\ run' = [op |-> "idle"]
    /\ UNCHANGED <<days_displayed, today, first_row>>

NextWalk ==
    \/ \E t \in TicketIds, row \in Rows, force_move \in BOOLEAN :
          StartWalk(t, row, 0, force_move)
    \/ WalkStep
    \/ EndWalk
    \/ FinishWalk

\* two tickets of the project and a fixed ticket without project
InitWalk ==
    /\ FirstSession
    /\ cell = {}
    /\ ticket = [t \in TicketIds |->
                   IF t = 3 THEN NewTicket(NoProject, TRUE, 1)
                   ELSE NewTicket(1, FALSE, IF t = 1 THEN MaxDuration ELSE 1)]
    /\ project = [p \in ProjectIds |-> NewProject]
    /\ last = [op |-> "init"]

SpecWalk == InitWalk /\ [][NextWalk]_vars

\* the loop is not suspended: a handler runs to its end
SpecWalkLive == SpecWalk /\ WF_vars(WalkStep) /\ WF_vars(EndWalk)

----------------------------------------------------------------------------
(* C27: a walk that has started reaches the end of its work queue, and at  *)
(* its end the mover has its length of cells and every other ticket the    *)
(* number of cells it had, whatever the rows of the grid.                  *)
WalkDone == run.op = "walk" /\ run'.op = "draw"

\* the cells of the table and the cells to create when the loop is left
Placed == run.w.cell \cup run.w.create

C27_WalkTerminates ==
    /\ (run.op = "walk") ~> (run.op = "draw")
    /\ [][WalkDone =>
            /\ CountOf(Placed, run.ticket) = length(DB, run.ticket)
            /\ \A t \in DOMAIN ticket \ {run.ticket} :
                  CountOf(Placed, t) = CountOf(run.before, t)]_vars

\* a walk ended below the last row of the grid after a cascade
C27_Witness ==
    /\ run.op = "idle"
    /\ last.op \in {"move_to", "move_to_failed"}
    /\ Cardinality(last.updated) = 3
    /\ \E c \in cell : c.row > rowCount - 1

----------------------------------------------------------------------------
(* The creation dialogs of the context menu.  A dialog is shown and the    *)
(* event loop goes on: drops and other dialogs are handled while it is     *)
(* open.  Its models are built when it opens and saved by _handle_ok.      *)

MaxDialogs == 2          \* creation dialogs open at the same time
GuiRows == {0}           \* rows the user clicks and drops on
GuiTicketIds == {1, 2}   \* ids of the tickets the dialogs create

\* CellModel.ticket_or_none(row, column)
ticket_or_none(db, row, column) ==
    IF \E c \in db.cell : c.row = row /\ c.column = column
    THEN (CHOOSE c \in db.cell : c.row = row /\ c.column = column).ticket
    ELSE 0

\* Member.get_next_available_key for the only owner of the lanes
next_project_key(db) ==
    IF DOMAIN db.project = {} THEN 1 ELSE SetMax(DOMAIN db.project) + 1

\* CellModel(row, column, ticket).save(force_insert=True); the primary key
\* (row, column) rejects a second row for the same place
insert_first_cell(db, t, row, column) ==
    IF ticket_or_none(db, row, column) # 0
    THEN [db EXCEPT !.failed = TRUE]
    ELSE [db EXCEPT !.cell = @ \cup {[row |-> row, column |-> column,
                                      ticket |-> t, is_top_cell |-> TRUE,
                                      is_bottom_cell |-> TRUE]}]

\* ContextMenu._create_ticket and _create_project on an empty cell of a lane
OpenDialog(kind, row, column) ==
    /\ run.op = "idle"
    /\ column % 3 # 2
    /\ ticket_or_none(DB, row, column) = 0
    /\ Cardinality(run.open) < MaxDialogs
    /\ LET i == SetMin(1..MaxDialogs \ {d.id : d \in run.open})
       IN run' = [run EXCEPT !.open = @ \cup
                       {[id |-> i, kind |-> kind, row |-> row,
                         column |-> column, ticket |-> 0,
                         project |-> IF kind = "project"
                                     THEN next_project_key(DB)
                                     ELSE NoProject]}]
    /\ last' = [op |-> "open", kind |-> kind, row |-> row, column |-> column]
    /\ UNCHANGED <<cell, ticket, project, days_displayed, today, first_row>>

\* _save_project_values: the project of the dialog, inserted or saved over
\* the row of the same key
save_project_values(db, d) ==
    IF d.kind = "project"
    THEN [db EXCEPT !.project =
             [p \in DOMAIN db.project \cup {d.project} |->
                 IF p = d.project THEN [NewProject EXCEPT !.charge = 1]
                 ELSE db.project[p]]]
    ELSE db

\* the id of the ticket of the dialog: given by the first save
dialog_ticket_id(db, d) == IF d.ticket = 0 THEN next_ticket_id(db) ELSE d.ticket

\* TicketInfoWidget.save_values of the ticket of the dialog
save_ticket_values(db, d) ==
    LET t == dialog_ticket_id(db, d)
        new == IF d.kind = "project" THEN NewTicket(d.project, FALSE, 0)
               ELSE NewTicket(NoProject, FALSE, 1)
    IN [db EXCEPT !.ticket =
           [u \in DOMAIN db.ticket \cup {t} |->
               IF u = t THEN new ELSE db.ticket[u]]]

\* _handle_ok of TicketModifierWidget and of ProjectModifierWidget
handle_ok(db, d) ==
    LET saved == save_ticket_values(save_project_values(db, d), d)
        t == dialog_ticket_id(db, d)
        placed == insert_first_cell(saved, t, d.row, d.column)
    IN IF placed.failed THEN placed ELSE refresh(placed, t)

\* OK pressed in an open creation dialog; when the handler raises the
\* dialog stays open with its saved ticket
HandleOkNew(d) ==
    /\ run.op = "idle"
    /\ d \in run.open
    /\ dialog_ticket_id(DB, d) \in GuiTicketIds
    /\ LET db == handle_ok(DB, d)
           t == dialog_ticket_id(DB, d)
       IN /\ InGrid(db)
          /\ Store(db)
          /\ last' = [op |-> IF db.failed THEN "ok_failed" ELSE "ok",
                      ticket |-> t, row |-> d.row, column |-> d.column,
                      kind |-> d.kind]
          /\ run' = [run EXCEPT !.open =
                        IF db.failed
                        THEN (@ \ {d}) \cup {[d EXCEPT !.ticket = t]}
                        ELSE @ \ {d}]
    /\ UNCHANGED <<days_displayed, today, first_row>>

\* the cancel button
Cancel(d) ==
    /\ run.op = "idle"
    /\ d \in run.open
    /\ run' = [run EXCEPT !.open = @ \ {d}]
    /\ last' = [op |-> "cancel", row |-> d.row, column |-> d.column]
    /\ UNCHANGED <<cell, ticket, project, days_displayed, today, first_row>>

\* an empty store, no dialog open
InitGui ==
    /\ today = Today
    /\ days_displayed =
          compute_days_displayed(date_first_row_from_parameters(Today), Today)
    /\ first_row = days_displayed[1]
    /\ run = [op |-> "idle", open |-> {}]
    /\ cell = {}
    /\ ticket = <<>>
    /\ project = <<>>
    /\ last = [op |-> "init"]

NextGui ==
    \/ \E kind \in {"ticket", "project"}, row \in GuiRows, column \in Columns :
          OpenDialog(kind, row, column)
    \/ \E d \in run.open : HandleOkNew(d)
    \/ \E d \in run.open : Cancel(d)
    \/ \E t \in DOMAIN ticket, row \in GuiRows, column \in Columns :
          MoveTo(t, row, column, TRUE)

SpecGui == InitGui /\ [][NextGui]_vars

----------------------------------------------------------------------------
(* C28: when OK is pressed in a creation dialog opened on the cell (r, c), *)
(* whatever was handled since it opened, the table holds at most one cell  *)
(* at (r, c) and the ticket the dialog saved has a cell.                   *)
Confirmed == last'.op \in {"ok", "ok_failed"}

CellsAt(cs, row, column) == {c \in cs : c.row = row /\ c.column = column}

C28_OneClaim ==
    [][Confirmed =>
          /\ Cardinality(CellsAt(cell', last'.row, last'.column)) <= 1
          /\ last'.ticket \in DOMAIN ticket' =>
                CountOf(cell', last'.ticket) > 0]_vars

\* the part of C28 that holds: no place of the grid has two cells
C28_NoSecondCell ==
    \A row \in Rows, column \in Columns :
        Cardinality(CellsAt(cell, row, column)) <= 1

\* a ticket saved by a dialog whose place was taken meanwhile
C28_Witness ==
    /\ last.op = "ok_failed"
    /\ ticket_or_none(DB, last.row, last.column) \notin {0, last.ticket}
    /\ last.ticket \in DOMAIN ticket
    /\ CountOf(cell, last.ticket) = 0

----------------------------------------------------------------------------
(* Drops anywhere on the grid: dropEvent hands rowAt and columnAt of the   *)
(* position of the drop to Ticket.move_to.                                 *)

\* the columns of the grid of one member: the lane of the member, the
\* backlog and the spacer
GridColumns == 0..2

IsSpacer(column) == column % 3 = 2

\* PlanningGrid.dropEvent on a cell of the grid
DropEvent(t, row, column) == MoveTo(t, row, column, TRUE)

NextLanes ==
    \/ \E t \in DOMAIN ticket, row \in Rows, column \in GridColumns :
          DropEvent(t, row, column)
    \/ \E t \in DOMAIN ticket : Refresh(t)

SpecLanes == Init /\ [][NextLanes]_vars

----------------------------------------------------------------------------
(* C29: every cell of the table has a row of 0 or more and a column that   *)
(* is the lane or the backlog of a member, never a spacer, and a scheduled *)
(* ticket has its cells in the lane of a member.                           *)
C29_MemberLanes ==
    /\ \A c \in cell : c.row >= 0 /\ ~IsSpacer(c.column)
    /\ \A t \in DOMAIN ticket :
          ticket[t].is_scheduled =>
              \A c \in get_cells(DB, t) : c.column % 3 = 0

----------------------------------------------------------------------------
(* The start of the application on a store that may have no cell: the     *)
(* query of _compute_first_day for the lowest row has no row to return.    *)

\* a first day taken from the parameters when the table has no cell
compute_first_day_default(cells, date_first_row_old, day) ==
    IF cells = {} THEN date_first_row_from_parameters(day)
    ELSE compute_first_day(cells, date_first_row_old, day)

\* _compute_first_day with the DoesNotExist of the select on an empty
\* table, written as a null date
compute_first_day_or_raise(cells, date_first_row_old, day) ==
    IF cells = {} THEN NoDate
    ELSE compute_first_day(cells, date_first_row_old, day)

\* initialize_grid of a new process: with the error the grid keeps no row
\* and the process ends; otherwise as OpenBoard
InitializeGrid(day) ==
    /\ run.op \in {"idle", "closed"}
    /\ today' = day
    /\ LET first_day == compute_first_day_or_raise(cell, first_row, day)
       IN IF first_day = NoDate
          THEN /\ days_displayed' = <<>>
               /\ run' = [op |-> "closed"]
               /\ last' = [op |-> "open_failed", cells |-> cell,
                           first_row |-> first_row, again |-> FALSE]
          ELSE LET days == compute_days_displayed(first_day, day)
                   first_date_new == days[1]
                   delta == get_delta_cells(first_row, first_date_new)
               IN /\ days_displayed' = days
                  /\ \E cells_ordered \in get_cells_ordered(cell, delta) :
                        run' = [op |-> "move_all_cells_up",
                                cells_ordered |-> cells_ordered,
                                delta |-> delta,
                                first_date_new |-> first_date_new]
                  /\ last' = [op |-> "open", cells |-> cell,
                              first_row |-> first_row,
                              again |-> (last.op = "rebase" /\ day = today)]
    /\ UNCHANGED <<cell, ticket, project, first_row>>

NextStart ==
    \/ \E day \in BoardDays : InitializeGrid(day)
    \/ MoveCellUp
    \/ UpdateFirstRow
    \/ \E t \in DOMAIN ticket : run.op = "idle" /\ Delete(t)

SpecStart == InitRebase /\ [][NextStart]_vars

----------------------------------------------------------------------------
(* C30: when the board is opened on a table without cells, the opening     *)
(* fails before a row of the grid is created: no cell is written and the   *)
(* marker of the first row keeps its date.                                 *)
OpenedEmpty == cell = {} /\ last'.op \in {"open", "open_failed"}

C30_EmptyTable ==
    [][OpenedEmpty =>
          /\ last'.op = "open_failed"
          /\ days_displayed' = <<>>
          /\ run'.op = "closed"
          /\ cell' = cell
          /\ first_row' = first_row]_vars

\* a board that was open, emptied of its tickets and then failed to open
C30_Witness ==
    /\ last.op = "open_failed"
    /\ cell = {}
    /\ DOMAIN ticket = {}
    /\ days_displayed = <<>>

====
